---- MODULE Spec2Model ----
(***************************************************************************)
(* Model of util/upload-script.py and util/s3_factory.py: a command line   *)
(* driver that uploads a script to, or rolls it back in, one S3 bucket per *)
(* region.  The state is the parsed command line, the S3 object built from *)
(* it, the provider (buckets, object versions, denied operations), the log *)
(* of provider calls and the position of the driver.                       *)
(*                                                                         *)
(* Text arguments that the code splits on "," are represented by their     *)
(* comma separated fields: "a,b" is <<"a", "b">>, "all" is <<"all">> and    *)
(* the empty text is <<"">>, which is what "".split(",") returns.          *)
(*                                                                         *)
(* The provider holds one object per bucket, the key <key_path>/<script>,  *)
(* lists its versions most recent first, and answers every call from its   *)
(* current state, except that the credentials may be denied one operation. *)
(* Buckets that exist before the run have versioning enabled.              *)
(***************************************************************************)
EXTENDS Integers, Sequences, FiniteSets, TLC

VARIABLES args, self, s3, denied, calls, pc, todo, attempts, outcome

vars == <<args, self, s3, denied, calls, pc, todo, attempts, outcome>>

\* Python's None, for text values.
None == "None"

\* VersionId=None of rollback(), for version ids (which are numbers here).
NoVersion == 0

\* MaxKeys of list_object_versions.
MaxKeys == 3

\* Longest --regions list drawn as an input.
MaxList == 2

\* Largest number of versions an object starts with.
MaxVersions == 4

Range(seq) == {seq[i] : i \in DOMAIN seq}

Take(seq, n) == SubSeq(seq, 1, IF Len(seq) < n THEN Len(seq) ELSE n)

(***************************************************************************)
(* The provider: regions, bucket names, and the answer to each call.       *)
(***************************************************************************)

Partitions == {"commercial", "govcloud", "china"}

\* ec2.describe_regions() at the partition's main region.
get_all_aws_regions(main_region) ==
    CASE main_region = "us-east-1" -> {"us-east-1", "us-west-2"}
      [] main_region = "us-gov-west-1" -> {"us-gov-west-1", "us-gov-east-1"}
      [] main_region = "cn-north-1" -> {"cn-north-1", "cn-northwest-1"}
      [] OTHER -> {}

\* A region of no partition drawn here, which the command line accepts too.
ForeignRegion == "eu-west-1"

\* The texts that can reach the driver loop as a region: the regions of the
\* three partitions, a region of none of them, and the fields "all" and "".
RegionNames ==
    {"us-east-1", "us-west-2", "us-gov-west-1", "us-gov-east-1", "cn-north-1", "cn-northwest-1",
     ForeignRegion, "all", ""}

\* "%s-aws-parallelcluster" % region
DefaultBucket(region) == region \o "-aws-parallelcluster"

CustomBucket == "my-scripts"

\* bucket if bucket else "%s-aws-parallelcluster" % region: None and the empty
\* text are both falsy.
BucketName(bucket, region) ==
    IF bucket # None /\ bucket # "" THEN bucket ELSE DefaultBucket(region)

Buckets == {DefaultBucket(r) : r \in RegionNames} \cup {CustomBucket}

\* The content of the local script file, and of the n-th version put before the run.
FileData == <<"file", 0>>

OldData(n) == <<"version", n>>

NoData == <<>>

AbsentBucket == [exists |-> FALSE, versioning |-> FALSE, versions |-> <<>>]

\* A versioned bucket whose object has n versions, most recent first.
PresentBucket(n) ==
    [exists |-> TRUE, versioning |-> TRUE,
     versions |-> [i \in 1..n |-> [VersionId |-> n + 1 - i, Body |-> OldData(n + 1 - i)]]]

DeniableOps == {"HeadBucket", "HeadObject", "PutObject", "CreateBucket"}

HeadBucketCode(ctx, bucket) ==
    IF "HeadBucket" \in ctx.denied THEN "403"
    ELSE IF ctx.s3[bucket].exists THEN "200" ELSE "404"

HeadObjectCode(ctx, bucket) ==
    IF "HeadObject" \in ctx.denied THEN "403"
    ELSE IF ctx.s3[bucket].exists /\ Len(ctx.s3[bucket].versions) > 0 THEN "200" ELSE "404"

PutObjectCode(ctx, bucket) ==
    IF "PutObject" \in ctx.denied THEN "AccessDenied"
    ELSE IF ctx.s3[bucket].exists THEN "200" ELSE "NoSuchBucket"

CreateBucketCode(ctx, bucket) ==
    IF "CreateBucket" \in ctx.denied THEN "AccessDenied"
    ELSE IF ctx.s3[bucket].exists THEN "BucketAlreadyOwnedByYou" ELSE "200"

GetObjectCode(ctx, bucket, version_id) ==
    IF ~ctx.s3[bucket].exists THEN "NoSuchBucket"
    ELSE IF \E i \in DOMAIN ctx.s3[bucket].versions :
                ctx.s3[bucket].versions[i].VersionId = version_id
         THEN "200" ELSE "NoSuchVersion"

\* get_object without its VersionId: the latest version's content.
GetLatestBody(ctx, bucket, version_id) ==
    ctx.s3[bucket].versions[1].Body

GetObjectBody(ctx, bucket, version_id) ==
    LET vs == ctx.s3[bucket].versions
        i == CHOOSE k \in DOMAIN vs : vs[k].VersionId = version_id
    IN vs[i].Body

\* What a successful put-object does to the bucket: a new latest version when
\* versioning is enabled, the single "null" version replaced when it is not.
StorePut(bucket_state, data) ==
    IF bucket_state.versioning
    THEN [bucket_state EXCEPT
            !.versions = <<[VersionId |-> Len(@) + 1, Body |-> data]>> \o @]
    ELSE [bucket_state EXCEPT !.versions = <<[VersionId |-> NoVersion, Body |-> data]>>]

\* One provider call as it is logged: the operation, its parameters, the
\* region of the driver loop that issued it and the provider's answer.
\* LocationConstraint is None when the call carries none; for put_bucket_versioning
\* it holds the Status of the VersioningConfiguration.
Req(op, bucket, region, constraint, version_id, body, code, versions) ==
    [op |-> op, Bucket |-> bucket, region |-> region,
     LocationConstraint |-> IF op = "put_bucket_versioning" THEN None ELSE constraint,
     Status |-> IF op = "put_bucket_versioning" THEN constraint ELSE None,
     VersionId |-> version_id, Body |-> body, code |-> code, Versions |-> versions]

Call(ctx, req) == [ctx EXCEPT !.calls = Append(@, req)]

(***************************************************************************)
(* pcluster.utils.error: prints the message and, with fail_on_error,       *)
(* raises SystemExit.                                                      *)
(***************************************************************************)
error(ctx, message, fail_on_error) ==
    [ctx EXCEPT !.msg = message,
                !.raised = IF fail_on_error THEN "SystemExit" ELSE @]

(***************************************************************************)
(* class S3.  Each method takes and returns a context: the provider state, *)
(* the call log, the last message printed, the exception raised (None when *)
(* the method returns) and the value returned.                             *)
(***************************************************************************)

NewCtx(provider, denied_ops, log) ==
    [s3 |-> provider, denied |-> denied_ops, calls |-> log,
     msg |-> None, raised |-> None, ret |-> None, version_id |-> NoVersion]

get_main_region(partition) ==
    CASE partition = "commercial" -> "us-east-1"
      [] partition = "govcloud" -> "us-gov-west-1"
      [] partition = "china" -> "cn-north-1"
      [] OTHER -> None

\* The region set with the unsupported regions left in.
ResolveRegionsNoSubtraction(region, unsupported_regions, main_region) ==
    IF region = <<"all">> THEN get_all_aws_regions(main_region) ELSE Range(region)

\* set(aws_regions) - set(unsupported_regions)
ResolveRegions(region, unsupported_regions, main_region) ==
    LET aws_regions == IF region = <<"all">> THEN get_all_aws_regions(main_region)
                       ELSE Range(region)
    IN aws_regions \ Range(unsupported_regions)

\* S3.__init__; raised is SystemExit when the partition is unknown.
S3Init(a) ==
    LET main_region == get_main_region(a.partition)
    IN [partition |-> a.partition,
        dryrun |-> a.dryrun,
        override |-> a.override,
        main_region |-> main_region,
        bucket |-> a.bucket,
        createifnobucket |-> a.createifnobucket,
        aws_regions |-> IF main_region = None THEN {}
                        ELSE ResolveRegions(a.regions, a.unsupportedregions, main_region),
        raised |-> IF main_region = None THEN "SystemExit" ELSE None]

\* create_bucket without its put_bucket_versioning call.
create_bucket_unversioned(ctx, obj, bucket, region) ==
    LET constraint == IF obj.main_region = "us-east-1" THEN None ELSE region
        code == CreateBucketCode(ctx, bucket)
        c == Call(ctx, Req("create_bucket", bucket, region, constraint, NoVersion, NoData,
                           code, <<>>))
    IN IF code # "200" THEN [c EXCEPT !.raised = "ClientError"]
       ELSE [c EXCEPT !.s3[bucket] =
                        [exists |-> TRUE, versioning |-> FALSE, versions |-> <<>>],
                      !.ret = bucket]

create_bucket(ctx, obj, bucket, region) ==
    LET home == obj.main_region = "us-east-1"
        constraint == IF home THEN None ELSE region
        code == CreateBucketCode(ctx, bucket)
        c == Call(ctx, Req("create_bucket", bucket, region, constraint, NoVersion, NoData,
                           code, <<>>))
        created == [c EXCEPT !.s3[bucket] =
                        [exists |-> TRUE, versioning |-> FALSE, versions |-> <<>>]]
        waited == IF home
                  THEN Call(created, Req("wait_bucket_exists", bucket, region, None,
                                         NoVersion, NoData, "200", <<>>))
                  ELSE created
        versioned == Call(waited, Req("put_bucket_versioning", bucket, region, "Enabled",
                                      NoVersion, NoData, "200", <<>>))
    IN IF code # "200" THEN [c EXCEPT !.raised = "ClientError"]
       ELSE [versioned EXCEPT !.s3[bucket].versioning = TRUE, !.ret = bucket]

get_bucket(ctx, obj, bucket, region) ==
    LET name == BucketName(bucket, region)
        code == HeadBucketCode(ctx, name)
        h == Call(ctx, Req("head_bucket", name, region, None, NoVersion, NoData, code, <<>>))
        nobucket == code = "404"
        r == IF nobucket /\ obj.createifnobucket THEN create_bucket(h, obj, name, region)
             ELSE h
    IN IF r.raised # None THEN r ELSE [r EXCEPT !.ret = name]

put_object(ctx, region, bucket, data) ==
    LET code == PutObjectCode(ctx, bucket)
        c == Call(ctx, Req("put_object", bucket, region, None, NoVersion, data, code, <<>>))
    IN IF code = "200"
       THEN [c EXCEPT !.s3[bucket] = StorePut(@, data), !.msg = "Successfully uploaded"]
       ELSE IF code = "NoSuchBucket"
       THEN error(error(c, "Couldn't upload", FALSE), "Bucket is not present.", TRUE)
       ELSE [error(c, "Couldn't upload", FALSE) EXCEPT !.raised = "ClientError"]

\* The upload condition with override not consulted.
ShouldUploadIgnoringOverride(exist, override, dryrun) == ~dryrun

\* The condition under which upload_to_s3 uploads.
ShouldUpload(exist, override, dryrun) ==
    (exist /\ override /\ ~dryrun) \/ (~exist /\ ~dryrun)

upload_to_s3(ctx, obj, region) ==
    LET g == get_bucket(ctx, obj, obj.bucket, region)
        bucket == g.ret
        code == HeadObjectCode(g, bucket)
        h == Call(g, Req("head_object", bucket, region, None, NoVersion, NoData, code, <<>>))
        exist == code = "200"
    IN IF g.raised # None THEN g
       ELSE IF ShouldUpload(exist, obj.override, obj.dryrun)
       THEN put_object(h, region, bucket, FileData)
       ELSE error(h, "Not uploading", TRUE)

\* versions[0]: the first item of the listing.
SelectLatest(versions) == versions[1]

\* versions[1]: the second item of the listing.
SelectVersion(versions) == versions[2]

\* Lines 196-208: the version to roll back to, when none is given.
previous_version(ctx, region, bucket) ==
    LET code == HeadObjectCode(ctx, bucket)
        h == Call(ctx, Req("head_object", bucket, region, None, NoVersion, NoData, code, <<>>))
        versions == Take(h.s3[bucket].versions, MaxKeys)
        l == Call(h, Req("list_object_versions", bucket, region, None, NoVersion, NoData,
                         "200", versions))
    IN IF code # "200" THEN error(h, "No such object", TRUE)
       ELSE IF Len(versions) < 2 THEN error(l, "Not enough versions", TRUE)
       ELSE [l EXCEPT !.version_id = SelectVersion(versions).VersionId,
                      !.msg = "Found Version"]

\* Lines 210-226: fetch the version and, unless dryrun, put it again.
restore_version(ctx, obj, region, bucket, version_id) ==
    LET code == GetObjectCode(ctx, bucket, version_id)
        data == IF code = "200" THEN GetObjectBody(ctx, bucket, version_id) ELSE NoData
        g == Call(ctx, Req("get_object", bucket, region, None, version_id, data, code, <<>>))
        p == put_object(g, region, bucket, data)
    IN IF code # "200" THEN error(g, "No such object", TRUE)
       ELSE IF obj.dryrun THEN [g EXCEPT !.msg = "Not restoring"]
       ELSE IF p.raised = "ClientError" THEN error(p, "No such object", TRUE)
       ELSE p

rollback(ctx, obj, region, version_id) ==
    LET g == get_bucket(ctx, obj, obj.bucket, region)
        bucket == g.ret
        v == IF version_id = NoVersion THEN previous_version(g, region, bucket)
             ELSE [g EXCEPT !.version_id = version_id]
    IN IF g.raised # None THEN g
       ELSE IF v.raised # None THEN v
       ELSE restore_version(v, obj, region, bucket, v.version_id)

(***************************************************************************)
(* The driver, upload-script.py.                                           *)
(***************************************************************************)

\* The flags; --override is drawn only without --rollback, which never reads it.
Flags ==
    {f \in [dryrun : BOOLEAN, override : BOOLEAN, createifnobucket : BOOLEAN,
             rollback : BOOLEAN] : f.rollback => ~f.override}

\* --regions: "all", a list of at most MaxList regions of the partition, a
\* region of another partition, or a list with "all" as one of its fields.
RegionLists(partition) ==
    {<<"all">>} \cup
    UNION {[1..n -> get_all_aws_regions(get_main_region(partition))] : n \in 1..MaxList} \cup
    {<<ForeignRegion>>, <<"all", get_main_region(partition)>>}

\* --unsupportedregions: empty (the default) or one region of the partition.
UnsupportedLists(partition) ==
    {<<"">>} \cup {<<r>> : r \in get_all_aws_regions(get_main_region(partition))}

\* --versionid: absent, or the id of the object's oldest version.
VersionIds(rolling_back) == IF rolling_back THEN {NoVersion, 1} ELSE {NoVersion}

VersionCounts == {0, 1, 2, MaxVersions}

BucketStates == {AbsentBucket} \cup {PresentBucket(n) : n \in VersionCounts}

\* The buckets an invocation can reach.
Reachable(partition, regions, bucket) ==
    {BucketName(bucket, r) :
        r \in IF regions = <<"all">>
              THEN get_all_aws_regions(get_main_region(partition))
              ELSE Range(regions)}

Providers(partition, regions, bucket) ==
    {[b \in Buckets |->
        IF b \in Reachable(partition, regions, bucket) THEN f[b] ELSE AbsentBucket] :
        f \in [Reachable(partition, regions, bucket) -> BucketStates]}

\* The operations the credentials are denied: none, or one of them when the
\* region selector has a single field.
Faults(regions) ==
    IF Len(regions) = 1 THEN {{}} \cup {{op} : op \in DeniableOps} ELSE {{}}

Args(partition, regions, unsupported, flags, versionid, bucket) ==
    [partition |-> partition, regions |-> regions, unsupportedregions |-> unsupported,
     dryrun |-> flags.dryrun, override |-> flags.override,
     createifnobucket |-> flags.createifnobucket, rollback |-> flags.rollback,
     versionid |-> versionid, bucket |-> bucket]

NoSelf ==
    [partition |-> None, dryrun |-> FALSE, override |-> FALSE, main_region |-> None,
     bucket |-> None, createifnobucket |-> FALSE, aws_regions |-> {}, raised |-> None]

Init ==
    /\ \/ \E partition \in Partitions, flags \in Flags, bucket \in {None, "", CustomBucket} :
            \E regions \in RegionLists(partition),
               unsupported \in UnsupportedLists(partition),
               versionid \in VersionIds(flags.rollback) :
                /\ args = Args(partition, regions, unsupported, flags, versionid, bucket)
                /\ s3 \in Providers(partition, regions, bucket)
                /\ denied \in Faults(regions)
       \/ /\ args = Args("europe", <<"all">>, <<"">>,
                         [dryrun |-> FALSE, override |-> FALSE, createifnobucket |-> FALSE,
                          rollback |-> FALSE], NoVersion, None)
          /\ s3 = [b \in Buckets |-> AbsentBucket]
          /\ denied = {}
    /\ self = NoSelf
    /\ calls = <<>>
    /\ pc = "main"
    /\ todo = {}
    /\ attempts = [r \in RegionNames |-> 0]
    /\ outcome = [r \in RegionNames |-> None]

\* s3 = S3(...): lines 59-69 of the driver.
Construct ==
    /\ pc = "main"
    /\ self' = S3Init(args)
    /\ pc' = IF self'.raised # None THEN self'.raised ELSE "loop"
    /\ todo' = self'.aws_regions
    /\ UNCHANGED <<args, s3, denied, calls, attempts, outcome>>

\* One iteration of the driver loop without --rollback.
Upload ==
    /\ pc = "loop"
    /\ ~args.rollback
    /\ \E region \in todo :
        LET r == upload_to_s3(NewCtx(s3, denied, calls), self, region)
        IN /\ s3' = r.s3
           /\ calls' = r.calls
           /\ todo' = todo \ {region}
           /\ attempts' = [attempts EXCEPT ![region] = @ + 1]
           /\ outcome' = [outcome EXCEPT ![region] = IF r.msg = None THEN r.raised ELSE r.msg]
           /\ pc' = IF r.raised # None THEN r.raised ELSE "loop"
    /\ UNCHANGED <<args, self, denied>>

\* One iteration of the driver loop with --rollback.
Rollback ==
    /\ pc = "loop"
    /\ args.rollback
    /\ \E region \in todo :
        LET r == rollback(NewCtx(s3, denied, calls), self, region, args.versionid)
        IN /\ s3' = r.s3
           /\ calls' = r.calls
           /\ todo' = todo \ {region}
           /\ attempts' = [attempts EXCEPT ![region] = @ + 1]
           /\ outcome' = [outcome EXCEPT ![region] = IF r.msg = None THEN r.raised ELSE r.msg]
           /\ pc' = IF r.raised # None THEN r.raised ELSE "loop"
    /\ UNCHANGED <<args, self, denied>>

\* The loop has visited every region: the script ends.
Finish ==
    /\ pc = "loop"
    /\ todo = {}
    /\ pc' = "done"
    /\ UNCHANGED <<args, self, s3, denied, calls, todo, attempts, outcome>>

Next == Construct \/ Upload \/ Rollback \/ Finish

Spec == Init /\ [][Next]_vars

(***************************************************************************)
(* Properties.                                                             *)
(***************************************************************************)

Ended == pc \in {"done", "SystemExit", "ClientError"}

\* The calls of one operation issued while the driver loop was at a region.
CallsOf(log, region, op) == SelectSeq(log, LAMBDA c : c.region = region /\ c.op = op)

Issued(region, op) == Len(CallsOf(calls, region, op)) > 0

MutatingOps == {"put_object", "create_bucket", "put_bucket_versioning"}

ObjectOps == {"head_object", "put_object", "list_object_versions", "get_object"}

\* C1: with dry-run enabled no mutating provider call (put-object, create-bucket,
\* put-bucket-versioning) is ever issued, whatever the other flags and the
\* provider state.  Stated for a provider that denies no operation.
C1_DryRunNeverMutates ==
    (args.dryrun /\ denied = {}) => \A i \in DOMAIN calls : calls[i].op \notin MutatingOps

\* What head-object answered for a region: the code's "exist".
Exist(region) == CallsOf(calls, region, "head_object")[1].code = "200"

\* C2 as claimed: once upload_to_s3 has checked the object in a region,
\* put-object is issued iff the object does not exist, or exists with override
\* enabled and dry-run disabled; otherwise the region ends with "Not uploading".
\* Stated for a provider that denies no operation.
C2_UploadIffAbsentOrOverride ==
    \A r \in RegionNames :
        (~args.rollback /\ denied = {} /\ Issued(r, "head_object")) =>
            /\ Issued(r, "put_object") <=>
                   (~Exist(r) \/ (Exist(r) /\ args.override /\ ~args.dryrun))
            /\ ~Issued(r, "put_object") => outcome[r] = "Not uploading"

\* C2 as amended: once upload_to_s3 has checked the object in a region,
\* put-object is issued iff dry-run is disabled and (head-object did not find
\* the object, or override is enabled); otherwise no put-object is issued and
\* the region ends with the fatal "Not uploading" error.
C2_UploadIffNotDryRun ==
    \A r \in RegionNames :
        (~args.rollback /\ Issued(r, "head_object")) =>
            /\ Issued(r, "put_object") <=>
                   (~args.dryrun /\ (~Exist(r) \/ args.override))
            /\ ~Issued(r, "put_object") => outcome[r] = "Not uploading"

\* An upload in dry-run mode found the object absent and did not put it.
C2_Witness ==
    \E r \in RegionNames :
        /\ ~args.rollback /\ args.dryrun
        /\ Issued(r, "head_object") /\ ~Exist(r)
        /\ ~Issued(r, "put_object")
        /\ outcome[r] = "Not uploading"

Constructed == pc # "main" /\ self.raised = None

\* C3 as claimed: the resolved region set is (all regions of the partition)
\* minus the unsupported set when the selector is "all", and exactly the listed
\* regions, with nothing subtracted, when it is an explicit list.
C3_ExplicitListVerbatim ==
    Constructed =>
        IF args.regions = <<"all">>
        THEN self.aws_regions =
                 get_all_aws_regions(self.main_region) \ Range(args.unsupportedregions)
        ELSE self.aws_regions = Range(args.regions)

\* C3 as amended: the resolved region set is (all regions of the partition)
\* minus the unsupported set when the selector is "all", and the set of the
\* listed regions minus the unsupported set when it is an explicit list.
C3_ResolvedMinusUnsupported ==
    Constructed =>
        /\ self.aws_regions \cap Range(args.unsupportedregions) = {}
        /\ \A r \in RegionNames \ Range(args.unsupportedregions) :
               r \in self.aws_regions <=>
                   IF args.regions = <<"all">>
                   THEN r \in get_all_aws_regions(get_main_region(args.partition))
                   ELSE \E i \in DOMAIN args.regions : args.regions[i] = r

\* An explicit list that names an unsupported region, which was dropped.
C3_Witness ==
    /\ Constructed
    /\ args.regions # <<"all">>
    /\ \E i \in DOMAIN args.regions :
           /\ args.regions[i] \in Range(args.unsupportedregions)
           /\ args.regions[i] \notin self.aws_regions
    /\ self.aws_regions # {}

\* C4: a fatal error in one region halts that region only.  Stated for the
\* claim's own example, the "Not uploading" conflict: when the script has ended
\* with that error in one region, every other region of the resolved set has
\* been processed.  Stated for a provider that denies no operation.
C4_OtherRegionsStillProcessed ==
    \A r \in RegionNames :
        (Ended /\ denied = {} /\ outcome[r] = "Not uploading") =>
            \A other \in self.aws_regions : outcome[other] # None

\* C5: without --rollback, when the script has ended upload_to_s3 has been
\* attempted exactly once for every region of the resolved set minus the
\* unsupported set.  Stated for a provider that denies no operation.
C5_UploadExactlyOncePerRegion ==
    (Ended /\ ~args.rollback /\ denied = {}) =>
        \A r \in self.aws_regions \ Range(args.unsupportedregions) : attempts[r] = 1

\* C6: a create-bucket call for the partition's home region carries no
\* location constraint; for any other region it carries one equal to the region.
\* Stated for a provider that denies no operation.
C6_LocationConstraintUnlessHome ==
    \A i \in DOMAIN calls :
        (calls[i].op = "create_bucket" /\ denied = {}) =>
            IF calls[i].region = get_main_region(args.partition)
            THEN calls[i].LocationConstraint = None
            ELSE calls[i].LocationConstraint = calls[i].region

\* C7: when head-bucket or head-object fails with an error other than not
\* found, the operation does not go on to create-bucket or put-object in that
\* region.
C7_OnlyNotFoundIsHandled ==
    \A i \in DOMAIN calls :
        (calls[i].op \in {"head_bucket", "head_object"} /\ calls[i].code = "403") =>
            \A j \in DOMAIN calls :
                (j > i /\ calls[j].region = calls[i].region) =>
                    calls[j].op \notin {"create_bucket", "put_object"}

\* C8: a rollback with no version id lists at most MaxKeys versions and fetches
\* the version at index 1 of the listing, the second most recent; when fewer
\* than 2 versions are listed it ends with the fatal "Not enough versions"
\* error and issues neither get-object nor put-object.
C8_RollbackSelectsSecondVersion ==
    \A r \in RegionNames :
        Issued(r, "list_object_versions") =>
            LET versions == CallsOf(calls, r, "list_object_versions")[1].Versions
                gets == CallsOf(calls, r, "get_object")
            IN /\ args.rollback /\ args.versionid = NoVersion
               /\ Len(versions) <= MaxKeys
               /\ Len(versions) >= 2 =>
                      /\ Len(gets) = 1
                      /\ gets[1].VersionId = versions[2].VersionId
                      /\ versions[2].VersionId = versions[1].VersionId - 1
               /\ Len(versions) < 2 =>
                      /\ outcome[r] = "Not enough versions"
                      /\ pc = "SystemExit"
                      /\ gets = <<>>
                      /\ ~Issued(r, "put_object")

\* One region listed MaxKeys versions of a longer history and fetched the
\* second, and another region listed a single version and failed.
C8_Witness ==
    \E r1, r2 \in RegionNames :
        /\ Issued(r1, "list_object_versions") /\ Issued(r2, "list_object_versions")
        /\ Len(CallsOf(calls, r1, "list_object_versions")[1].Versions) = MaxKeys
        /\ Issued(r1, "get_object")
        /\ Len(CallsOf(calls, r2, "list_object_versions")[1].Versions) = 1
        /\ outcome[r2] = "Not enough versions"

\* The content of a version of the object in a bucket state.
BodyOf(bucket_state, version_id) ==
    LET vs == bucket_state.versions
    IN vs[CHOOSE k \in DOMAIN vs : vs[k].VersionId = version_id].Body

HasVersion(bucket_state, version_id) ==
    \E k \in DOMAIN bucket_state.versions :
        bucket_state.versions[k].VersionId = version_id

\* The bucket rollback resolves for a region.
BucketOf(region) ==
    BucketName(args.bucket, region)

\* C9: a rollback step that succeeds with dry-run disabled leaves the
\* object's former versions in place under a new latest version whose content
\* is that of the selected version (the given id, or the second of the
\* listing); a rollback step with dry-run enabled leaves the object's versions
\* unchanged and only reads the selected version.
C9_RollbackRestoresSelected ==
    [][\A r \in RegionNames :
          (args.rollback /\ attempts'[r] # attempts[r]) =>
              LET b == BucketOf(r)
                  gets == CallsOf(calls', r, "get_object")
                  lists == CallsOf(calls', r, "list_object_versions")
              IN /\ outcome'[r] = "Successfully uploaded" =>
                     /\ ~args.dryrun
                     /\ Len(gets) = 1
                     /\ gets[1].VersionId =
                            IF args.versionid # NoVersion THEN args.versionid
                            ELSE lists[1].Versions[2].VersionId
                     /\ HasVersion(s3[b], gets[1].VersionId)
                     /\ Len(s3'[b].versions) = Len(s3[b].versions) + 1
                     /\ Tail(s3'[b].versions) = s3[b].versions
                     /\ ~HasVersion(s3[b], s3'[b].versions[1].VersionId)
                     /\ s3'[b].versions[1].Body = BodyOf(s3[b], gets[1].VersionId)
                 /\ args.dryrun =>
                     /\ s3'[b].versions = s3[b].versions
                     /\ CallsOf(calls', r, "put_object") = <<>>
                     /\ outcome'[r] = "Not restoring" =>
                            /\ Len(gets) = 1
                            /\ gets[1].Body = BodyOf(s3[b], gets[1].VersionId)]_vars

\* A rollback restored a version other than the latest one: the object's
\* new latest version has the content of the listing's second version.
C9_Witness ==
    \E r \in RegionNames :
        /\ args.rollback /\ ~args.dryrun
        /\ outcome[r] = "Successfully uploaded"
        /\ Issued(r, "get_object")
        /\ LET vs == s3[BucketOf(r)].versions
               got == CallsOf(calls, r, "get_object")[1]
           IN /\ Len(vs) >= 3
              /\ vs[1].Body = got.Body
              /\ vs[1].Body = vs[3].Body
              /\ vs[1].Body # vs[2].Body

\* C10: create-bucket is issued only right after head-bucket answered 404 for
\* that bucket with create-if-missing enabled, and between a create-bucket call
\* and any later head-object, put-object, list-object-versions or get-object
\* call on that bucket there is a put-bucket-versioning call, Status Enabled,
\* on it; it is the first call issued after the bucket exists.
C10_CreateThenVersioning ==
    \A i \in DOMAIN calls :
        calls[i].op = "create_bucket" =>
            /\ self.createifnobucket
            /\ i > 1
            /\ calls[i - 1].op = "head_bucket"
            /\ calls[i - 1].Bucket = calls[i].Bucket
            /\ calls[i - 1].code = "404"
            /\ \A k \in DOMAIN calls :
                   (k > i /\ calls[k].op \in ObjectOps
                          /\ calls[k].Bucket = calls[i].Bucket) =>
                       \E j \in (i + 1)..(k - 1) :
                           /\ calls[j].op = "put_bucket_versioning"
                           /\ calls[j].Bucket = calls[i].Bucket
                           /\ calls[j].Status = "Enabled"
                           /\ \A m \in (i + 1)..(j - 1) :
                                  calls[m].op = "wait_bucket_exists"

\* A bucket was created, versioning was enabled on it, and the object was
\* then put into it.
C10_Witness ==
    \E i, j, k \in DOMAIN calls :
        /\ i < j /\ j < k
        /\ calls[i].op = "create_bucket" /\ calls[i].code = "200"
        /\ calls[j].op = "put_bucket_versioning" /\ calls[j].Bucket = calls[i].Bucket
        /\ calls[k].op = "put_object" /\ calls[k].Bucket = calls[i].Bucket
        /\ calls[k].code = "200"
        /\ s3[calls[i].Bucket].versioning

====
